---- MODULE Spec2Model ----
(***************************************************************************)
(* Model of ci/Dockerfile_generator.py: the CLI that composes Dockerfile   *)
(* text from template blocks and writes one file per registered version.   *)
(* Text is modelled character for character as TLA+ strings, so format,    *)
(* rstrip and concatenation are computed and not assumed.                  *)
(***************************************************************************)
EXTENDS Integers, Sequences, FiniteSets, TLC

\* ------------------------------------------------------------------------
\* Bounds of the model
\* ------------------------------------------------------------------------

\* number of invocations of main() explored in one behaviour
MaxRuns == 2

\* number of applications of f explored by the composer-only specification
MaxCalls == 2

\* ------------------------------------------------------------------------
\* Module-level tables (src/ci/Dockerfile_generator.py:8-16)
\* ------------------------------------------------------------------------

OS ==
    [o \in {"windows", "macos", "ubuntu"} |->
        IF o = "ubuntu" THEN <<"18.04", "20.04">> ELSE <<>>]

HARDWARE == <<"cpu", "gpu">>

\* ------------------------------------------------------------------------
\* Template blocks
\* ------------------------------------------------------------------------

\* src/ci/Dockerfile_generator.py:18-20 (56 characters)
CPU_BASE_BLOCK ==
    "# Taichi Dockerfile for development\n"
    \o "FROM {os}:{version}\n"

\* src/ci/Dockerfile_generator.py:22-25 (169 characters)
GPU_BASE_BLOCK ==
    "# Taichi Dockerfile for development\n"
    \o "FROM nvidia/cudagl:11.2.2-devel-ubuntu{version}\n"
    \o "# Use 11.2 instead of 11.4 to avoid forward compatibility issue on Nvidia driver 460\n"

\* src/ci/Dockerfile_generator.py:27-37 (314 characters)
CPU_APT_INSTALL_BLOCK ==
    "\n"
    \o "RUN apt-get update && \\\n"
    \o "    apt-get install -y software-properties-common \\\n"
    \o "                       python3-pip \\\n"
    \o "                       libtinfo-dev \\\n"
    \o "                       clang-10 \\\n"
    \o "                       wget \\\n"
    \o "                       git \\\n"
    \o "                       unzip \\\n"
    \o "                       libx11-xcb-dev\n"

\* src/ci/Dockerfile_generator.py:39-74 (1278 characters)
GPU_APT_INSTALL_BLOCK ==
    "\n"
    \o "RUN apt-get update && \\\n"
    \o "    apt-get install -y software-properties-common \\\n"
    \o "                       python3-pip \\\n"
    \o "                       libtinfo-dev \\\n"
    \o "                       clang-10 \\\n"
    \o "                       wget \\\n"
    \o "                       git \\\n"
    \o "                       unzip \\\n"
    \o "                       libxrandr-dev \\\n"
    \o "                       libxinerama-dev \\\n"
    \o "                       libxcursor-dev \\\n"
    \o "                       libxi-dev \\\n"
    \o "                       libglu1-mesa-dev \\\n"
    \o "                       freeglut3-dev \\\n"
    \o "                       mesa-common-dev \\\n"
    \o "                       libssl-dev \\\n"
    \o "                       libglm-dev \\\n"
    \o "                       libxcb-keysyms1-dev \\\n"
    \o "                       libxcb-dri3-dev \\\n"
    \o "                       libxcb-randr0-dev \\\n"
    \o "                       libxcb-ewmh-dev \\\n"
    \o "                       libpng-dev \\\n"
    \o "                       g++-multilib \\\n"
    \o "                       libmirclient-dev \\\n"
    \o "                       libwayland-dev \\\n"
    \o "                       bison \\\n"
    \o "                       libx11-xcb-dev \\\n"
    \o "                       liblz4-dev \\\n"
    \o "                       libzstd-dev \\\n"
    \o "                       qt5-default \\\n"
    \o "                       libglfw3 \\\n"
    \o "                       libglfw3-dev \\\n"
    \o "                       libjpeg-dev \\\n"
    \o "                       libvulkan-dev\n"

\* src/ci/Dockerfile_generator.py:76-78 (57 characters)
NVIDIA_DRIVER_CAPABILITIES_BLOCK ==
    "\n"
    \o "ENV NVIDIA_DRIVER_CAPABILITIES compute,graphics,utility\n"

\* src/ci/Dockerfile_generator.py:80-83 (85 characters)
MAINTAINER_BLOCK ==
    "\n"
    \o "ENV DEBIAN_FRONTEND=noninteractive\n"
    \o "LABEL maintainer=\"https://github.com/taichi-dev\"\n"

\* src/ci/Dockerfile_generator.py:85-92 (307 characters)
CMAKE_BLOCK ==
    "\n"
    \o "# Install the latest version of CMAKE v3.20.5 from source\n"
    \o "WORKDIR /\n"
    \o "RUN wget https://github.com/Kitware/CMake/releases/download/v3.20.5/cmake-3.20.5-linux-x86_64.tar.gz\n"
    \o "RUN tar xf cmake-3.20.5-linux-x86_64.tar.gz && \\\n"
    \o "    rm cmake-3.20.5-linux-x86_64.tar.gz\n"
    \o "ENV PATH=\"/cmake-3.20.5-linux-x86_64/bin:$PATH\"\n"

\* src/ci/Dockerfile_generator.py:94-105 (430 characters)
LLVM_BLOCK ==
    "\n"
    \o "# Intall LLVM 10\n"
    \o "WORKDIR /\n"
    \o "# Make sure this URL gets updated each time there is a new prebuilt bin release\n"
    \o "RUN wget https://github.com/taichi-dev/taichi_assets/releases/download/llvm10_linux_patch2/taichi-llvm-10.0.0-linux.zip\n"
    \o "RUN unzip taichi-llvm-10.0.0-linux.zip && \\\n"
    \o "    rm taichi-llvm-10.0.0-linux.zip\n"
    \o "ENV PATH=\"/taichi-llvm-10.0.0-linux/bin:$PATH\"\n"
    \o "# Use Clang as the default compiler\n"
    \o "ENV CC=\"clang-10\"\n"
    \o "ENV CXX=\"clang++-10\"\n"

\* src/ci/Dockerfile_generator.py:107-112 (107 characters)
USER_BLOCK ==
    "\n"
    \o "# Create non-root user for running the container\n"
    \o "RUN useradd -ms /bin/bash dev\n"
    \o "WORKDIR /home/dev\n"
    \o "USER dev\n"

\* src/ci/Dockerfile_generator.py:114-130 (711 characters)
VULKAN_BLOCK ==
    "\n"
    \o "# Setting up Vulkan SDK\n"
    \o "# References\n"
    \o "# [1] https://github.com/edowson/docker-nvidia-vulkan\n"
    \o "# [2] https://gitlab.com/nvidia/container-images/vulkan/-/tree/master/docker\n"
    \o "WORKDIR /vulkan\n"
    \o "RUN wget https://sdk.lunarg.com/sdk/download/1.2.189.0/linux/vulkansdk-linux-x86_64-1.2.189.0.tar.gz\n"
    \o "RUN tar xf vulkansdk-linux-x86_64-1.2.189.0.tar.gz && \\\n"
    \o "    rm vulkansdk-linux-x86_64-1.2.189.0.tar.gz\n"
    \o "# Locate Vulkan components\n"
    \o "ENV VULKAN_SDK=\"/vulkan/1.2.189.0/x86_64\"\n"
    \o "ENV PATH=\"$VULKAN_SDK/bin:$PATH\"\n"
    \o "ENV LD_LIBRARY_PATH=\"$VULKAN_SDK/lib${LD_LIBRARY_PATH:+:$LD_LIBRARY_PATH}\"\n"
    \o "ENV VK_LAYER_PATH=\"$VULKAN_SDK/etc/vulkan/explicit_layer.d\"\n"
    \o "WORKDIR /usr/share/vulkan/icd.d\n"
    \o "COPY ci/vulkan/icd.d/nvidia_icd.json nvidia_icd.json\n"

\* src/ci/Dockerfile_generator.py:132-144 (426 characters)
CONDA_BLOCK ==
    "\n"
    \o "# Install miniconda\n"
    \o "RUN wget https://repo.anaconda.com/miniconda/Miniconda3-latest-Linux-x86_64.sh && \\\n"
    \o "    bash Miniconda3-latest-Linux-x86_64.sh -p /home/dev/miniconda -b\n"
    \o "ENV PATH=\"/home/dev/miniconda/bin:$PATH\"\n"
    \o "\n"
    \o "# Set up multi-python environment\n"
    \o "RUN conda init bash\n"
    \o "RUN conda create -n py36 python=3.6 -y\n"
    \o "RUN conda create -n py37 python=3.7 -y\n"
    \o "RUN conda create -n py38 python=3.8 -y\n"
    \o "RUN conda create -n py39 python=3.9 -y\n"

\* src/ci/Dockerfile_generator.py:146-153 (133 characters)
SCRIPTS_BLOCK ==
    "\n"
    \o "# Load scripts for build and test\n"
    \o "WORKDIR /home/dev/scripts\n"
    \o "COPY ci/scripts/{script} {script}\n"
    \o "\n"
    \o "WORKDIR /home/dev\n"
    \o "ENV LANG=\"C.UTF-8\"\n"
\* ------------------------------------------------------------------------
\* String operations of the Python runtime used by the generator
\* ------------------------------------------------------------------------

\* characters str.rstrip() removes when called without argument
Whitespace == {" ", "\n", "\t", "\r", "\f"}

\* str.rstrip(): drop trailing whitespace characters
RECURSIVE RStrip(_)
RStrip(s) ==
    IF Len(s) > 0 /\ SubSeq(s, Len(s), Len(s)) \in Whitespace
    THEN RStrip(SubSeq(s, 1, Len(s) - 1))
    ELSE s

\* index of the first occurrence of character c in s at or after i, 0 if none
RECURSIVE IndexOfChar(_, _, _)
IndexOfChar(s, c, i) ==
    IF i > Len(s) THEN 0
    ELSE IF SubSeq(s, i, i) = c THEN i
    ELSE IndexOfChar(s, c, i + 1)

\* mutant of Format: only the first replacement field is substituted
Format_FirstFieldOnly(t, kw) ==
    LET open == IndexOfChar(t, "{", 1) IN
    IF open = 0 THEN t
    ELSE LET close == IndexOfChar(t, "}", open + 1)
             name  == SubSeq(t, open + 1, close - 1)
         IN  SubSeq(t, 1, open - 1) \o kw[name]
                \o SubSeq(t, close + 1, Len(t))

\* str.format(**kw): one left-to-right pass replacing each {name} field by
\* kw[name]; substituted text is not scanned again
RECURSIVE Format(_, _)
Format(t, kw) ==
    LET open == IndexOfChar(t, "{", 1) IN
    IF open = 0 THEN t
    ELSE LET close == IndexOfChar(t, "}", open + 1)
             name  == SubSeq(t, open + 1, close - 1)
         IN  SubSeq(t, 1, open - 1) \o kw[name]
                \o Format(SubSeq(t, close + 1, Len(t)), kw)

\* functools.reduce(lambda x, y: x + y, blocks): left fold of +
RECURSIVE Reduce(_)
Reduce(blocks) ==
    IF Len(blocks) = 1 THEN blocks[1]
    ELSE Reduce(<<blocks[1] \o blocks[2]>> \o SubSeq(blocks, 3, Len(blocks)))

\* ------------------------------------------------------------------------
\* The two composers main() defines (the closures named f)
\* ------------------------------------------------------------------------

\* the text appended for ubuntu 18.04 (cpu), lines 245-246
CPU_EXTRA == " \\\n                       zlib1g-dev"

\* the text appended for ubuntu 20.04 (gpu), lines 267-269
GPU_EXTRA ==
    " \\\n                       vulkan-tools"
    \o " \\\n                       vulkan-validationlayers-dev"

\* mutant of CpuInstallBlock: the special treatment tests the os only
CpuInstallBlock_AnyVersion(g, os, version) ==
    IF os = "ubuntu"
    THEN RStrip(g.CPU_APT_INSTALL_BLOCK) \o CPU_EXTRA
    ELSE g.CPU_APT_INSTALL_BLOCK

\* mutant of CpuInstallBlock: the extra package is appended without rstrip()
CpuInstallBlock_NoRStrip(g, os, version) ==
    IF os = "ubuntu" /\ version = "18.04"
    THEN g.CPU_APT_INSTALL_BLOCK \o CPU_EXTRA
    ELSE g.CPU_APT_INSTALL_BLOCK

\* cpu branch, lines 241-246: install_block after the special treatment
CpuInstallBlock(g, os, version) ==
    IF os = "ubuntu" /\ version = "18.04"
    THEN RStrip(g.CPU_APT_INSTALL_BLOCK) \o CPU_EXTRA
    ELSE g.CPU_APT_INSTALL_BLOCK

\* gpu branch, lines 263-269: install_block after the special treatment
GpuInstallBlock(g, os, version) ==
    IF os = "ubuntu" /\ version = "20.04"
    THEN RStrip(g.GPU_APT_INSTALL_BLOCK) \o GPU_EXTRA
    ELSE g.GPU_APT_INSTALL_BLOCK

\* mutant of CpuDockerfile: the conda block precedes the user block
CpuDockerfile_CondaBeforeUser(g, os, version) ==
    LET base_block    == Format(CPU_BASE_BLOCK,
                                [n \in {"os", "version"} |->
                                    IF n = "os" THEN os ELSE version])
        scripts_block == Format(SCRIPTS_BLOCK,
                                [n \in {"script"} |-> os \o "_build_test_cpu.sh"])
        install_block == CpuInstallBlock(g, os, version)
    IN  Reduce(<<base_block, MAINTAINER_BLOCK, install_block, CMAKE_BLOCK,
                 LLVM_BLOCK, CONDA_BLOCK, USER_BLOCK, scripts_block>>)

\* cpu branch, lines 238-251: the text f writes; g is the module namespace
\* the closure reads its install template from when it is called
CpuDockerfile(g, os, version) ==
    LET base_block    == Format(CPU_BASE_BLOCK,
                                [n \in {"os", "version"} |->
                                    IF n = "os" THEN os ELSE version])
        scripts_block == Format(SCRIPTS_BLOCK,
                                [n \in {"script"} |-> os \o "_build_test_cpu.sh"])
        install_block == CpuInstallBlock(g, os, version)
    IN  Reduce(<<base_block, MAINTAINER_BLOCK, install_block, CMAKE_BLOCK,
                 LLVM_BLOCK, USER_BLOCK, CONDA_BLOCK, scripts_block>>)

\* mutant of GpuDockerfile: the maintainer block precedes the driver
\* capabilities block
GpuDockerfile_MaintainerFirst(g, os, version) ==
    LET base_block    == Format(GPU_BASE_BLOCK, [n \in {"version"} |-> version])
        scripts_block == Format(SCRIPTS_BLOCK,
                                [n \in {"script"} |-> os \o "_build_test.sh"])
        install_block == GpuInstallBlock(g, os, version)
    IN  Reduce(<<base_block, MAINTAINER_BLOCK,
                 NVIDIA_DRIVER_CAPABILITIES_BLOCK, install_block, CMAKE_BLOCK,
                 LLVM_BLOCK, VULKAN_BLOCK, USER_BLOCK, CONDA_BLOCK,
                 scripts_block>>)

\* mutant of GpuDockerfile: the base block is the cpu one, formatted with
\* os and version
GpuDockerfile_CpuBase(g, os, version) ==
    LET base_block    == Format(CPU_BASE_BLOCK,
                                [n \in {"os", "version"} |->
                                    IF n = "os" THEN os ELSE version])
        scripts_block == Format(SCRIPTS_BLOCK,
                                [n \in {"script"} |-> os \o "_build_test.sh"])
        install_block == GpuInstallBlock(g, os, version)
    IN  Reduce(<<base_block, NVIDIA_DRIVER_CAPABILITIES_BLOCK,
                 MAINTAINER_BLOCK, install_block, CMAKE_BLOCK, LLVM_BLOCK,
                 VULKAN_BLOCK, USER_BLOCK, CONDA_BLOCK, scripts_block>>)

\* mutant of GpuDockerfile: the LLVM block precedes the CMake block
GpuDockerfile_LlvmBeforeCmake(g, os, version) ==
    LET base_block    == Format(GPU_BASE_BLOCK, [n \in {"version"} |-> version])
        scripts_block == Format(SCRIPTS_BLOCK,
                                [n \in {"script"} |-> os \o "_build_test.sh"])
        install_block == GpuInstallBlock(g, os, version)
    IN  Reduce(<<base_block, NVIDIA_DRIVER_CAPABILITIES_BLOCK,
                 MAINTAINER_BLOCK, install_block, LLVM_BLOCK, CMAKE_BLOCK,
                 VULKAN_BLOCK, USER_BLOCK, CONDA_BLOCK, scripts_block>>)

\* gpu branch, lines 261-275
GpuDockerfile(g, os, version) ==
    LET base_block    == Format(GPU_BASE_BLOCK, [n \in {"version"} |-> version])
        scripts_block == Format(SCRIPTS_BLOCK,
                                [n \in {"script"} |-> os \o "_build_test.sh"])
        install_block == GpuInstallBlock(g, os, version)
    IN  Reduce(<<base_block, NVIDIA_DRIVER_CAPABILITIES_BLOCK,
                 MAINTAINER_BLOCK, install_block, CMAKE_BLOCK, LLVM_BLOCK,
                 VULKAN_BLOCK, USER_BLOCK, CONDA_BLOCK, scripts_block>>)

\* the f bound by `if args.target == "cpu": ... else: ...`, lines 233-279
Dockerfile(g, target, os, version) ==
    IF target = "cpu" THEN CpuDockerfile(g, os, version)
    ELSE GpuDockerfile(g, os, version)

\* mutant of Filename: the cpu branch stores under the gpu name
Filename_NoCpuSuffix(target, os, version) ==
    "Dockerfile." \o os \o "." \o version

\* lines 252 and 276: name of the file f stores the text in (under pwd)
Filename(target, os, version) ==
    IF target = "cpu"
    THEN "Dockerfile." \o os \o "." \o version \o ".cpu"
    ELSE "Dockerfile." \o os \o "." \o version

\* ------------------------------------------------------------------------
\* State
\* ------------------------------------------------------------------------

VARIABLES
    pc,         \* position of the process: idle, parse, branch, loop, done, exited
    runs,       \* invocations of main() started so far
    argv,       \* command line of the current invocation: [os, target]
    args,       \* namespace returned by parse_args, NoArgs before that
    f,          \* which closure main() bound to f: "cpu", "gpu", "" when unbound
    idx,        \* versions of OS[args.os] already mapped over f
    globals,    \* module namespace entries f reads when it runs
    fs,         \* files under pwd: filename -> content
    written,    \* filenames written by the current invocation, in order
    generated,  \* every text composed so far, over all invocations
    stdout,     \* log records printed to stdout by the current invocation
    stderr,     \* log records printed to stderr by the current invocation
    exit_code   \* exit statuses returned by the current invocation: none
                \* while it runs, then <<0>> or <<2>>

vars == <<pc, runs, argv, args, f, idx, globals, fs, written, generated,
          stdout, stderr, exit_code>>

\* a flag the command line does not carry
Missing == "<missing>"

\* values tried for -o/--os: the registered ones, an unregistered one, none
OsInputs == {"windows", "macos", "ubuntu", "debian", Missing}

\* values tried for -t/--target
TargetInputs == {"cpu", "gpu", "tpu", Missing}

NoArgs == [os |-> "", target |-> ""]

\* the module namespace after import, lines 27-74
InitialGlobals ==
    [CPU_APT_INSTALL_BLOCK |-> CPU_APT_INSTALL_BLOCK,
     GPU_APT_INSTALL_BLOCK |-> GPU_APT_INSTALL_BLOCK]

EmptyFs == [n \in {} |-> ""]

\* filename.open("w") followed by fp.write(text): create or truncate, then write
WriteFile(files, name, text) ==
    [n \in (DOMAIN files) \cup {name} |-> IF n = name THEN text ELSE files[n]]

\* info(), success(), error(): one record per printed line
Log(level, message) == [level |-> level, message |-> message]

\* mutant of Accepted: the target flag is declared without choices
Accepted_OsOnly(cmd) ==
    /\ cmd.os \in DOMAIN OS
    /\ cmd.target # Missing

\* argparse: choices=OS tests membership in the dict keys, choices=HARDWARE
\* membership in the tuple; required=True rejects an absent flag
Accepted(cmd) ==
    /\ cmd.os \in DOMAIN OS
    /\ cmd.target \in {HARDWARE[i] : i \in DOMAIN HARDWARE}

\* the message argparse hands to Parser.error
ErrorMessage(cmd) ==
    IF cmd.os # Missing /\ cmd.os \notin DOMAIN OS
        THEN "argument -o/--os: invalid choice"
    ELSE IF cmd.target # Missing
            /\ cmd.target \notin {HARDWARE[i] : i \in DOMAIN HARDWARE}
        THEN "argument -t/--target: invalid choice"
    ELSE "the following arguments are required"

Init ==
    /\ pc = "idle"
    /\ runs = 0
    /\ argv = NoArgs
    /\ args = NoArgs
    /\ f = ""
    /\ idx = 0
    /\ globals = InitialGlobals
    /\ fs = EmptyFs
    /\ written = <<>>
    /\ generated = <<>>
    /\ stdout = <<>>
    /\ stderr = <<>>
    /\ exit_code = <<>>

\* ------------------------------------------------------------------------
\* Steps of main()
\* ------------------------------------------------------------------------

\* the tool is started with a command line
Invoke(o, t) ==
    /\ pc \in {"idle", "done", "exited"}
    /\ runs < MaxRuns
    /\ runs' = runs + 1
    /\ pc' = "parse"
    /\ argv' = [os |-> o, target |-> t]
    /\ args' = NoArgs
    /\ f' = ""
    /\ idx' = 0
    /\ written' = <<>>
    /\ stdout' = <<>>
    /\ stderr' = <<>>
    /\ exit_code' = <<>>
    /\ UNCHANGED <<globals, fs, generated>>

\* parser.parse_args() accepts the command line, lines 207-231
ParseArgs ==
    /\ pc = "parse"
    /\ Accepted(argv)
    /\ args' = argv
    /\ pc' = "branch"
    /\ UNCHANGED <<runs, argv, f, idx, globals, fs, written, generated,
                   stdout, stderr, exit_code>>

\* parser.parse_args() rejects it and calls Parser.error, lines 156-161
ParserError ==
    /\ pc = "parse"
    /\ ~Accepted(argv)
    /\ stderr' = Append(stderr, Log("error", ErrorMessage(argv)))
    /\ stdout' = Append(stdout, Log("help", "usage"))
    /\ exit_code' = <<2>>
    /\ pc' = "exited"
    /\ UNCHANGED <<runs, argv, args, f, idx, globals, fs, written, generated>>

\* `if args.target == "cpu"` binds f to one of the two closures, lines 233-259
SelectBranch ==
    /\ pc = "branch"
    /\ IF args.target = "cpu"
       THEN /\ stdout' = Append(stdout,
                            Log("info", "Generating Dockerfile(s) for CPU."))
            /\ f' = "cpu"
       ELSE /\ stdout' = Append(stdout,
                            Log("info", "Generating Dockerfile(s) for GPU."))
            /\ f' = "gpu"
    /\ pc' = "loop"
    /\ UNCHANGED <<runs, argv, args, idx, globals, fs, written, generated,
                   stderr, exit_code>>

\* mutant of CallF: the special treatment rebinds the module-level
\* template instead of a local
CallF_RebindsGlobal ==
    /\ pc = "loop"
    /\ idx < Len(OS[args.os])
    /\ LET os         == args.os
           version    == OS[args.os][idx + 1]
           patched    == IF f = "cpu"
                         THEN [globals EXCEPT !.CPU_APT_INSTALL_BLOCK =
                                   CpuInstallBlock(globals, os, version)]
                         ELSE [globals EXCEPT !.GPU_APT_INSTALL_BLOCK =
                                   GpuInstallBlock(globals, os, version)]
           dockerfile == Dockerfile(globals, f, os, version)
           filename   == Filename(f, os, version)
       IN  /\ stdout' = stdout \o
                 <<Log("info", "OS: " \o os \o ", version: " \o version),
                   Log("info", "Storing at: " \o filename)>>
           /\ globals' = patched
           /\ fs' = WriteFile(fs, filename, dockerfile)
           /\ written' = Append(written, filename)
           /\ generated' = Append(generated,
                 [os |-> os, version |-> version, hardware |-> f,
                  filename |-> filename, dockerfile |-> dockerfile])
    /\ idx' = idx + 1
    /\ UNCHANGED <<pc, runs, argv, args, f, stderr, exit_code>>

\* one application of f by list(map(partial(f, args.os), OS[args.os])),
\* lines 236-255, 259-279 and 281
CallF ==
    /\ pc = "loop"
    /\ idx < Len(OS[args.os])
    /\ LET os         == args.os
           version    == OS[args.os][idx + 1]
           dockerfile == Dockerfile(globals, f, os, version)
           filename   == Filename(f, os, version)
       IN  /\ stdout' = stdout \o
                 <<Log("info", "OS: " \o os \o ", version: " \o version),
                   Log("info", "Storing at: " \o filename)>>
           /\ fs' = WriteFile(fs, filename, dockerfile)
           /\ written' = Append(written, filename)
           /\ generated' = Append(generated,
                 [os |-> os, version |-> version, hardware |-> f,
                  filename |-> filename, dockerfile |-> dockerfile])
    /\ idx' = idx + 1
    /\ UNCHANGED <<pc, runs, argv, args, f, globals, stderr, exit_code>>

\* the map is exhausted: success(...) and normal return, line 282
Success ==
    /\ pc = "loop"
    /\ idx = Len(OS[args.os])
    /\ stdout' = Append(stdout,
                    Log("success", "Dockerfile generation is complete."))
    /\ exit_code' = <<0>>
    /\ pc' = "done"
    /\ UNCHANGED <<runs, argv, args, f, idx, globals, fs, written, generated,
                   stderr>>

Next ==
    \/ \E o \in OsInputs, t \in TargetInputs : Invoke(o, t)
    \/ ParseArgs
    \/ ParserError
    \/ SelectBranch
    \/ CallF
    \/ Success

Spec == Init /\ [][Next]_vars

\* ------------------------------------------------------------------------
\* The composer alone: f applied to any os key and any version string of
\* the table, whether or not the pair is registered
\* ------------------------------------------------------------------------

AllVersions == UNION {{OS[o][i] : i \in DOMAIN OS[o]} : o \in DOMAIN OS}

InitF == Init

ApplyF(target, os, version) ==
    /\ Len(generated) < MaxCalls
    /\ generated' = Append(generated,
          [os |-> os, version |-> version, hardware |-> target,
           filename |-> Filename(target, os, version),
           dockerfile |-> Dockerfile(globals, target, os, version)])
    /\ UNCHANGED <<pc, runs, argv, args, f, idx, globals, fs, written,
                   stdout, stderr, exit_code>>

NextF ==
    \E target \in {"cpu", "gpu"}, os \in DOMAIN OS, version \in AllVersions :
        ApplyF(target, os, version)

SpecF == InitF /\ [][NextF]_vars

\* ------------------------------------------------------------------------
\* Vocabulary of the properties
\* ------------------------------------------------------------------------

StartsWith(t, p) == Len(p) <= Len(t) /\ SubSeq(t, 1, Len(p)) = p

EndsWith(t, p) ==
    Len(p) <= Len(t) /\ SubSeq(t, Len(t) - Len(p) + 1, Len(t)) = p

\* start positions of the occurrences of p in t
Occurrences(t, p) ==
    {i \in 1..(Len(t) - Len(p) + 1) : SubSeq(t, i, i + Len(p) - 1) = p}

\* position of the first occurrence of p in t, 0 when there is none
Find(t, p) ==
    LET occ == Occurrences(t, p) IN
    IF occ = {} THEN 0 ELSE CHOOSE i \in occ : \A j \in occ : i <= j

\* the generations recorded so far for one hardware kind
Generations(hw) ==
    {generated[i] : i \in {j \in DOMAIN generated : generated[j].hardware = hw}}

AllGenerations == {generated[i] : i \in DOMAIN generated}

Registered(os, version) ==
    os \in DOMAIN OS /\ \E i \in DOMAIN OS[os] : OS[os][i] = version

\* one continuation line of an apt-get package list
PackageLine(p) == " \\\n                       " \o p

\* a block without its final newline
Chomp(block) == SubSeq(block, 1, Len(block) - 1)

\* the base blocks and the script-loader block, written out
CpuBaseText(os, version) ==
    "# Taichi Dockerfile for development\nFROM " \o os \o ":" \o version \o "\n"

GpuBaseText(version) ==
    "# Taichi Dockerfile for development\n"
    \o "FROM nvidia/cudagl:11.2.2-devel-ubuntu" \o version \o "\n"
    \o "# Use 11.2 instead of 11.4 to avoid forward compatibility issue on Nvidia driver 460\n"

ScriptsText(script) ==
    "\n# Load scripts for build and test\nWORKDIR /home/dev/scripts\n"
    \o "COPY ci/scripts/" \o script \o " " \o script \o "\n"
    \o "\nWORKDIR /home/dev\nENV LANG=\"C.UTF-8\"\n"

\* the install block the override table prescribes for a target
ExpectedInstall(os, version, hw) ==
    IF os = "ubuntu" /\ version = "18.04" /\ hw = "cpu"
        THEN Chomp(CPU_APT_INSTALL_BLOCK) \o PackageLine("zlib1g-dev")
    ELSE IF os = "ubuntu" /\ version = "20.04" /\ hw = "gpu"
        THEN Chomp(GPU_APT_INSTALL_BLOCK) \o PackageLine("vulkan-tools")
                \o PackageLine("vulkan-validationlayers-dev")
    ELSE IF hw = "cpu" THEN CPU_APT_INSTALL_BLOCK
    ELSE GPU_APT_INSTALL_BLOCK

\* the text of a Dockerfile between the maintainer block and the CMake block
InstallSection(t) ==
    SubSeq(t, Find(t, MAINTAINER_BLOCK) + Len(MAINTAINER_BLOCK),
              Find(t, CMAKE_BLOCK) - 1)

\* ------------------------------------------------------------------------
\* C1: every Dockerfile generated for cpu is exactly base(os, version),
\* maintainer, install (plain or overridden), CMake, LLVM, user, conda and
\* the script loader for {os}_build_test_cpu.sh, in this order, and this is
\* the text stored in its file.
\* ------------------------------------------------------------------------
C1_CpuComposition ==
    \A g \in Generations("cpu") :
        /\ Registered(g.os, g.version)
        /\ \E install \in {CPU_APT_INSTALL_BLOCK,
                           Chomp(CPU_APT_INSTALL_BLOCK) \o PackageLine("zlib1g-dev")} :
              g.dockerfile =
                  CpuBaseText(g.os, g.version) \o MAINTAINER_BLOCK \o install
                  \o CMAKE_BLOCK \o LLVM_BLOCK \o USER_BLOCK \o CONDA_BLOCK
                  \o ScriptsText(g.os \o "_build_test_cpu.sh")
        /\ fs[g.filename] = g.dockerfile

C1_Witness ==
    /\ \E g \in Generations("cpu") : g.os = "ubuntu" /\ g.version = "18.04"
    /\ \E g \in Generations("cpu") : g.os = "ubuntu" /\ g.version = "20.04"
    /\ pc = "done"

\* ------------------------------------------------------------------------
\* C2: every Dockerfile generated for gpu is exactly gpu base(version),
\* driver capabilities, maintainer, install (plain or overridden), CMake,
\* LLVM, Vulkan, user, conda and the script loader for {os}_build_test.sh,
\* in this order; no cpu Dockerfile contains the Vulkan block or the driver
\* capabilities block.
\* ------------------------------------------------------------------------
C2_GpuComposition ==
    /\ \A g \in Generations("gpu") :
        /\ Registered(g.os, g.version)
        /\ \E install \in {GPU_APT_INSTALL_BLOCK,
                           Chomp(GPU_APT_INSTALL_BLOCK)
                               \o PackageLine("vulkan-tools")
                               \o PackageLine("vulkan-validationlayers-dev")} :
              g.dockerfile =
                  GpuBaseText(g.version) \o NVIDIA_DRIVER_CAPABILITIES_BLOCK
                  \o MAINTAINER_BLOCK \o install \o CMAKE_BLOCK \o LLVM_BLOCK
                  \o VULKAN_BLOCK \o USER_BLOCK \o CONDA_BLOCK
                  \o ScriptsText(g.os \o "_build_test.sh")
        /\ fs[g.filename] = g.dockerfile
    /\ \A g \in Generations("cpu") :
        /\ Occurrences(g.dockerfile, VULKAN_BLOCK) = {}
        /\ Occurrences(g.dockerfile, NVIDIA_DRIVER_CAPABILITIES_BLOCK) = {}

C2_Witness ==
    /\ \E g \in Generations("gpu") : g.os = "ubuntu" /\ g.version = "18.04"
    /\ \E g \in Generations("gpu") : g.os = "ubuntu" /\ g.version = "20.04"
    /\ Generations("cpu") # {}

\* ------------------------------------------------------------------------
\* C3: the install section of a generated Dockerfile is the install block
\* of its hardware kind, extended by zlib1g-dev exactly for (ubuntu, 18.04,
\* cpu) and by vulkan-tools and vulkan-validationlayers-dev exactly for
\* (ubuntu, 20.04, gpu); every other target gets the block unmodified.
\* ------------------------------------------------------------------------
C3_OverrideExactMatch ==
    \A g \in AllGenerations :
        /\ InstallSection(g.dockerfile)
              = ExpectedInstall(g.os, g.version, g.hardware)
        /\ (Occurrences(g.dockerfile, "zlib1g-dev") # {})
              <=> (g.os = "ubuntu" /\ g.version = "18.04" /\ g.hardware = "cpu")
        /\ (Occurrences(g.dockerfile, "vulkan-tools") # {})
              <=> (g.os = "ubuntu" /\ g.version = "20.04" /\ g.hardware = "gpu")
        /\ (Occurrences(g.dockerfile, "vulkan-validationlayers-dev") # {})
              <=> (g.os = "ubuntu" /\ g.version = "20.04" /\ g.hardware = "gpu")

C3_Witness ==
    \A hw \in {"cpu", "gpu"}, version \in {"18.04", "20.04"} :
        \E g \in AllGenerations :
            g.os = "ubuntu" /\ g.version = version /\ g.hardware = hw

\* the packages of the cpu install block, lines 29-36
BaseCpuPackages ==
    <<"software-properties-common", "python3-pip", "libtinfo-dev", "clang-10",
      "wget", "git", "unzip", "libx11-xcb-dev">>

\* an apt-get install instruction for a package list, one package per line
RECURSIVE PackageLines(_)
PackageLines(ps) ==
    IF ps = <<>> THEN "" ELSE PackageLine(Head(ps)) \o PackageLines(Tail(ps))

AptInstall(ps) ==
    "\nRUN apt-get update && \\\n    apt-get install -y " \o Head(ps)
    \o PackageLines(Tail(ps))

Ubuntu1804Cpu(g) == g.os = "ubuntu" /\ g.version = "18.04" /\ g.hardware = "cpu"

\* ------------------------------------------------------------------------
\* C4 as stated: the Dockerfile generated for (ubuntu, 18.04, cpu) begins
\* with `FROM ubuntu:18.04` and its install section lists the base cpu
\* packages plus zlib1g-dev.
\* ------------------------------------------------------------------------
C4_BeginsWithFrom ==
    \A g \in AllGenerations :
        Ubuntu1804Cpu(g) =>
            /\ StartsWith(g.dockerfile, "FROM ubuntu:18.04")
            /\ InstallSection(g.dockerfile)
                  = AptInstall(Append(BaseCpuPackages, "zlib1g-dev"))

\* ------------------------------------------------------------------------
\* C4 amended: the Dockerfile generated for (ubuntu, 18.04, cpu) begins
\* with the comment line `# Taichi Dockerfile for development`, its second
\* line (the first instruction) is `FROM ubuntu:18.04`, and its install
\* section lists the base cpu packages plus zlib1g-dev.
\* ------------------------------------------------------------------------
C4_FromIsFirstInstruction ==
    \A g \in AllGenerations :
        Ubuntu1804Cpu(g) =>
            /\ StartsWith(g.dockerfile,
                   "# Taichi Dockerfile for development\nFROM ubuntu:18.04\n")
            /\ ~StartsWith(g.dockerfile, "FROM")
            /\ InstallSection(g.dockerfile)
                  = AptInstall(Append(BaseCpuPackages, "zlib1g-dev"))

C4_Witness ==
    /\ \E g \in AllGenerations : Ubuntu1804Cpu(g)
    /\ pc = "loop"
    /\ idx = 1

\* ------------------------------------------------------------------------
\* C5: a Dockerfile generated for cpu contains the base block for its os
\* and version exactly once and ends with the script-loader block for
\* {os}_build_test_cpu.sh.
\* ------------------------------------------------------------------------
C5_OneBaseScriptsLast ==
    \A g \in Generations("cpu") :
        /\ Cardinality(Occurrences(g.dockerfile,
                                   CpuBaseText(g.os, g.version))) = 1
        /\ EndsWith(g.dockerfile, ScriptsText(g.os \o "_build_test_cpu.sh"))

C5_Witness ==
    /\ Cardinality(Generations("cpu")) = 2
    /\ Generations("gpu") = {}

\* ------------------------------------------------------------------------
\* C6: a Dockerfile composed for gpu starts with the Nvidia CUDA base block
\* formatted with the version alone; two gpu Dockerfiles of the same
\* version start with the same base block whatever their os, and when the
\* ubuntu 20.04 override applies to both or to neither they are equal up
\* to the script-loader block, which names {os}_build_test.sh.
\* ------------------------------------------------------------------------
Overridden(g) == g.os = "ubuntu" /\ g.version = "20.04" /\ g.hardware = "gpu"

\* a gpu Dockerfile without its trailing script-loader block
BeforeScripts(g) ==
    SubSeq(g.dockerfile, 1,
           Len(g.dockerfile) - Len(ScriptsText(g.os \o "_build_test.sh")))

C6_GpuBaseIgnoresOs ==
    /\ \A g \in Generations("gpu") :
        /\ StartsWith(g.dockerfile,
               GpuBaseText(g.version) \o NVIDIA_DRIVER_CAPABILITIES_BLOCK)
        /\ EndsWith(g.dockerfile, ScriptsText(g.os \o "_build_test.sh"))
    /\ \A a, b \in Generations("gpu") :
        (a.version = b.version /\ Overridden(a) = Overridden(b))
            => BeforeScripts(a) = BeforeScripts(b)

C6_Witness ==
    \E a, b \in Generations("gpu") :
        /\ a.version = b.version
        /\ a.os # b.os
        /\ a.dockerfile # b.dockerfile

\* ------------------------------------------------------------------------
\* C7: all generations of one target yield the same text, whatever was
\* generated before; the module's install templates keep their initial
\* value; every (ubuntu, 18.04, cpu) output names zlib1g-dev exactly once.
\* ------------------------------------------------------------------------
C7_Idempotent ==
    /\ \A a, b \in AllGenerations :
        (a.os = b.os /\ a.version = b.version /\ a.hardware = b.hardware)
            => a.dockerfile = b.dockerfile
    /\ globals = InitialGlobals
    /\ \A g \in AllGenerations :
        Ubuntu1804Cpu(g)
            => Cardinality(Occurrences(g.dockerfile, "zlib1g-dev")) = 1

\* (ubuntu, 18.04, cpu) generated twice with another target in between
C7_Witness ==
    \E i, j, k \in DOMAIN generated :
        /\ i < k /\ k < j
        /\ Ubuntu1804Cpu(generated[i])
        /\ Ubuntu1804Cpu(generated[j])
        /\ ~Ubuntu1804Cpu(generated[k])

\* ------------------------------------------------------------------------
\* C8: in every generated Dockerfile the first positions of the base
\* block, the install block, the CMake block, the LLVM block, the user
\* block and the script-loader block are strictly increasing.
\* ------------------------------------------------------------------------
BlockPositions(g) ==
    LET t == g.dockerfile IN
    <<Find(t, IF g.hardware = "cpu" THEN CpuBaseText(g.os, g.version)
              ELSE GpuBaseText(g.version)),
      Find(t, ExpectedInstall(g.os, g.version, g.hardware)),
      Find(t, CMAKE_BLOCK),
      Find(t, LLVM_BLOCK),
      Find(t, USER_BLOCK),
      Find(t, ScriptsText(g.os \o (IF g.hardware = "cpu"
                                   THEN "_build_test_cpu.sh"
                                   ELSE "_build_test.sh")))>>

C8_BlockOrder ==
    \A g \in AllGenerations :
        LET p == BlockPositions(g) IN
        /\ p[1] > 0
        /\ \A i \in 1..(Len(p) - 1) : p[i] < p[i + 1]

C8_Witness ==
    /\ \E g \in AllGenerations : Ubuntu1804Cpu(g)
    /\ \E g \in AllGenerations : Overridden(g)
    /\ \E g \in AllGenerations : ~Ubuntu1804Cpu(g) /\ ~Overridden(g)

\* ------------------------------------------------------------------------
\* C9: an accepted invocation writes, in the order of OS[os], exactly the
\* file Dockerfile.{os}.{version}.cpu (cpu) or Dockerfile.{os}.{version}
\* (gpu) for each registered version and nothing else, and then reports
\* success, also when OS[os] is empty; names ending in .cpu are written by
\* cpu invocations only.
\* ------------------------------------------------------------------------
ExpectedName(hw, os, version) ==
    "Dockerfile." \o os \o "." \o version \o (IF hw = "cpu" THEN ".cpu" ELSE "")

SuccessReported ==
    \E i \in DOMAIN stdout : stdout[i].level = "success"

C9_OneFilePerVersion ==
    /\ pc \in {"loop", "done"} =>
          written = [i \in 1..idx |->
                        ExpectedName(args.target, args.os, OS[args.os][i])]
    /\ pc = "done" =>
          /\ idx = Len(OS[args.os])
          /\ SuccessReported
          /\ exit_code = <<0>>
    /\ pc \notin {"loop", "done"} => written = <<>>
    /\ DOMAIN fs = {g.filename : g \in AllGenerations}
    /\ \A g \in AllGenerations :
          EndsWith(g.filename, ".cpu") <=> g.hardware = "cpu"

C9_Witness ==
    /\ pc = "done"
    /\ args.os = "windows"
    /\ written = <<>>
    /\ Cardinality(DOMAIN fs) = 2

\* ------------------------------------------------------------------------
\* C10: an invocation whose os or target is not a registered value, or is
\* missing, ends in Parser.error with the help printed and exit code 2; f
\* is never bound or called, nothing is written and success is not logged.
\* ------------------------------------------------------------------------
ValidCommandLine ==
    /\ argv.os \in {"windows", "macos", "ubuntu"}
    /\ argv.target \in {"cpu", "gpu"}

C10_InvalidRejected ==
    /\ []((pc # "idle" /\ ~ValidCommandLine) =>
            /\ pc \in {"parse", "exited"}
            /\ f = ""
            /\ idx = 0
            /\ written = <<>>
            /\ ~SuccessReported
            /\ pc = "exited" =>
                  /\ exit_code = <<2>>
                  /\ \E i \in DOMAIN stdout : stdout[i].level = "help"
                  /\ \E i \in DOMAIN stderr : stderr[i].level = "error")
    /\ [][~ValidCommandLine' => (fs' = fs /\ generated' = generated)]_vars

C10_Witness ==
    /\ pc = "exited"
    /\ argv.os = "debian"
    /\ DOMAIN fs # {}

====
